---- MODULE Spec2Model ----
(***************************************************************************)
(* Model of catharsys/plugins/std/blender/modify/func/object_util.py: the  *)
(* object modifiers Enable, EnableIfBoundBox, ModifyProperties,            *)
(* ModifyAttributes, ParentToObject, RenameObject, LogObject and           *)
(* ExportObjectObj.  Every modifier is one action; the scene (the host's   *)
(* object graph) is the state, and lastCall records the most recent call:  *)
(* its arguments, the steps it performed in order, and how it ended.       *)
(***************************************************************************)
EXTENDS Integers, Sequences, FiniteSets, TLC

\* ------------------------------------------------------------------ bounds
NObj == 3          \* scene objects 1..NObj
MaxLen == 2        \* longest object name drawn as an input
MaxPat == 3        \* longest search pattern drawn, in tokens
MaxRepl == 2       \* longest replacement drawn, in tokens
MaxEntries == 2    \* most entries of an mValues dictionary

Objs == 1..NObj
None == 0          \* Python's None where an object or a value is expected
Chars == {"a", "b"}

VARIABLES
    g_bInBlenderContext,  \* module global set by the guarded import
    parent,               \* Object.parent: Objs -> Objs \cup {None}
    hide_render,          \* Object.hide_render
    hide_viewport,        \* the viewport flag anyobj.Hide sets together with it
    name,                 \* Object.name, a sequence of characters
    props,                \* the custom properties _objX[sKey] of every object
    attrs,                \* the values of an object's attributes, by attribute path
    objType,              \* Object.type
    dirs,                 \* the directories that exist, each a sequence of segments
    boxHolds,             \* the relations the bounding-box library reports as true
    hostCalls,            \* the host and file-system calls the last call made, in order
    pre,                  \* the scene fields as they were when the last call began
    history,              \* hide_render at the start, and what Enable was last told per object
    lastCall              \* the last modifier call: fn, obj, cfg, trace, err

vars == <<g_bInBlenderContext, parent, hide_render, hide_viewport, name, props, attrs,
          objType, dirs, boxHolds, hostCalls, pre, history, lastCall>>

\* ------------------------------------------------------------- hierarchy
\* _objX.children: the objects whose parent is o
Children(o) == {c \in Objs : parent[c] = o}

\* a parent map in which following parent from any object ends at None
RECURSIVE ReachesRoot(_, _, _)
ReachesRoot(p, o, fuel) ==
    IF o = None THEN TRUE
    ELSE IF fuel = 0 THEN FALSE
    ELSE ReachesRoot(p, p[o], fuel - 1)

Hierarchies == {p \in [Objs -> Objs \cup {None}] : \A o \in Objs : ReachesRoot(p, o, NObj)}

\* a is o itself or an ancestor of o, by following Object.parent upwards
RECURSIVE InSubtreeOf(_, _, _)
InSubtreeOf(o, a, fuel) ==
    IF o = a THEN TRUE
    ELSE IF o = None \/ fuel = 0 THEN FALSE
    ELSE InSubtreeOf(parent[o], a, fuel - 1)

Subtree(a) == {o \in Objs : InSubtreeOf(o, a, NObj)}

\* the names objects carry at start: object o is named "a" repeated o times
InitName(o) == [i \in 1..o |-> "a"]

\* bpy.data.objects.get(sName): the object of that name, or None
ObjectsGet(sName) ==
    IF \E o \in Objs : name[o] = sName
    THEN CHOOSE o \in Objs : name[o] = sName
    ELSE None

Snapshot == [parent |-> parent, hide_render |-> hide_render,
             hide_viewport |-> hide_viewport, name |-> name,
             props |-> props, attrs |-> attrs, dirs |-> dirs]

NoCall == [fn |-> "none", obj |-> None, trace |-> <<>>, err |-> "none", at |-> 0, msg |-> <<>>]

\* outcome of one modifier call: the steps it took, the error it raised ("none"
\* when it returned), the mValues entry it raised at and what the message names
CallAt(fn, o, cfg, trace, err, at, msg) ==
    [fn |-> fn, obj |-> o, cfg |-> cfg, trace |-> trace, err |-> err, at |-> at, msg |-> msg]

Call(fn, o, cfg, trace, err) == CallAt(fn, o, cfg, trace, err, 0, <<>>)

\* no modifier has been called yet
Once == lastCall = NoCall

\* The decorators of line 71 and line 84 are names the guarded import binds:
\* when it failed the module raises NameError while loading and defines no
\* modifier, so a modifier can be called only with g_bInBlenderContext true.
ModuleLoaded == g_bInBlenderContext

\* ---------------------------------------------------------------- Enable
\* _EnableRender(_objX, _bEnable, bRecursive): set the flag, then recurse into
\* the children in order
RECURSIVE EnableRender(_, _, _, _), EnableRenderAll(_, _, _, _)
EnableRender(hr, o, bEnable, bRecursive) ==
    LET hr1 == [hr EXCEPT ![o] = ~bEnable] IN
    IF bRecursive THEN EnableRenderAll(hr1, Children(o), bEnable, bRecursive) ELSE hr1

EnableRenderAll(hr, cs, bEnable, bRecursive) ==
    IF cs = {} THEN hr
    ELSE LET c == CHOOSE x \in cs : \A y \in cs : x <= y IN
         EnableRenderAll(EnableRender(hr, c, bEnable, bRecursive), cs \ {c}, bEnable, bRecursive)

\* a bug that toggles the object alone
EnableCallShallow(hr, o, bEnable) == EnableRender(hr, o, bEnable, FALSE)

\* a bug that writes the flag of the target's parent as well
EnableCallUpward(hr, o, bEnable) ==
    LET hr1 == EnableRender(hr, o, bEnable, TRUE) IN
    IF parent[o] = None THEN hr1 ELSE [hr1 EXCEPT ![parent[o]] = ~bEnable]

\* line 102: _EnableRender(_objX, bEnable, bRecursive=True)
EnableCall(hr, o, bEnable) == EnableRender(hr, o, bEnable, TRUE)

\* the record of the calls: an Enable call that returned told its target, and
\* with it every object below the target, the xValue it was given
Told(o, xValue) ==
    [history EXCEPT !.recent = [d \in Objs |-> IF d \in Subtree(o) THEN xValue ELSE @[d]]]

\* no Enable call has returned yet
NoHistory(hr) == [initial |-> hr, recent |-> [o \in Objs |-> "never"]]

\* configurations of Enable: the sDTI matches or not, xValue is given or missing
EnableConfigs == [bDti : BOOLEAN, xValue : {"true", "false", "missing"}]

Enable(o, cfg) ==
    /\ ModuleLoaded
    /\ pre' = Snapshot
    /\ IF ~cfg.bDti
       THEN /\ lastCall' = Call("Enable", o, cfg, <<"assert", "type">>, "ConfigType")
            /\ UNCHANGED <<hide_render, history>>
       ELSE IF cfg.xValue = "missing"
       THEN /\ lastCall' = Call("Enable", o, cfg, <<"assert", "type", "parse">>, "Param")
            /\ UNCHANGED <<hide_render, history>>
       ELSE /\ hide_render' = EnableCall(hide_render, o, cfg.xValue = "true")
            /\ history' = Told(o, cfg.xValue)
            /\ lastCall' = Call("Enable", o, cfg, <<"assert", "type", "parse", "write">>, "none")
    /\ hostCalls' = <<>>
    /\ UNCHANGED <<g_bInBlenderContext, parent, hide_viewport, name, props, attrs, objType, dirs, boxHolds>>

\* the custom properties and the attribute values objects start with
PropKeys == {<<"p">>, <<"q">>}
Val(t, v) == [t |-> t, v |-> v]
InitProps == [o \in Objs |-> [k \in PropKeys |-> Val("int", 0)]]
Slots == {<<"x">>, <<"r">>, <<"d">>, <<"d", "x">>, <<"d", "r">>}
InitAttrs == [o \in Objs |-> [sl \in Slots |-> IF sl = <<"d">> THEN Val("object", 0) ELSE Val("int", 0)]]

\* the scene file lies in /proj; the root and /proj exist
BlendDir == <<"proj">>
InitDirs == {<<>>, BlendDir}

\* the scene a behaviour starts in, up to what its specification draws: the
\* hierarchy, the render flags, the names, the object types, the directories
\* and the bounding-box relations
InitWith(par, hr, nm, ty, ds, bh) ==
    /\ g_bInBlenderContext = TRUE
    /\ parent = par
    /\ hide_render = hr
    /\ hide_viewport = [o \in Objs |-> FALSE]
    /\ name = nm
    /\ objType = ty
    /\ dirs = ds
    /\ boxHolds = bh
    /\ props = InitProps
    /\ attrs = InitAttrs
    /\ hostCalls = <<>>
    /\ pre = [parent |-> parent, hide_render |-> hide_render,
              hide_viewport |-> hide_viewport, name |-> name,
              props |-> props, attrs |-> attrs, dirs |-> dirs]
    /\ history = NoHistory(hr)
    /\ lastCall = NoCall

Flat == [o \in Objs |-> None]
Shown == [o \in Objs |-> FALSE]
InitNames == [o \in Objs |-> InitName(o)]
Meshes == [o \in Objs |-> "MESH"]

\* Enable is called again and again on a hierarchy that stays as it is.  At
\* the start the objects are all shown or all hidden: every other assignment
\* of the flags is reached from there by Enable calls from the roots downwards.
InitEnable ==
    \E par \in Hierarchies, bHidden \in BOOLEAN :
        InitWith(par, [o \in Objs |-> bHidden], InitNames, Meshes, InitDirs, {})

NextEnable == \E o \in Objs, cfg \in EnableConfigs : Enable(o, cfg)

SpecEnable == InitEnable /\ [][NextEnable]_vars

\* C1: after Enable with xValue = v returns, the object and every descendant at
\* every depth has hide_render = not v
EnableReachesAllDescendants ==
    (lastCall.fn = "Enable" /\ lastCall.err = "none") =>
        \A d \in Subtree(lastCall.obj) : hide_render[d] = ~(lastCall.cfg.xValue = "true")

\* an Enable call has returned on an object with a grandchild whose flag it changed
EnableWitness ==
    /\ lastCall.fn = "Enable" /\ lastCall.err = "none"
    /\ \E c, g \in Objs : /\ parent[c] = lastCall.obj /\ parent[g] = c
                          /\ pre.hide_render[g] # hide_render[g]

\* C13: after any sequence of Enable calls on a fixed hierarchy, hide_render of
\* each object is (not xValue) of the most recent call that returned and whose
\* target was the object or one of its ancestors, and its initial value when
\* there was no such call; a call changes hide_render of no object outside
\* the target's subtree
EnableSequenceKeepsFrame ==
    /\ \A o \in Objs :
          hide_render[o] = IF history.recent[o] = "never" THEN history.initial[o]
                           ELSE ~(history.recent[o] = "true")
    /\ lastCall.fn = "Enable" =>
          \A d \in Objs \ Subtree(lastCall.obj) : hide_render[d] = pre.hide_render[d]

\* an Enable call has returned that changed the flag of a child of its target,
\* while an object outside the subtree keeps what an earlier call with the
\* other xValue gave it, and had another flag at the start
EnableSequenceWitness ==
    /\ lastCall.fn = "Enable" /\ lastCall.err = "none"
    /\ \E d \in Subtree(lastCall.obj) \ {lastCall.obj} : pre.hide_render[d] # hide_render[d]
    /\ \E e \in Objs \ Subtree(lastCall.obj) :
          /\ history.recent[e] \notin {"never", lastCall.cfg.xValue}
          /\ hide_render[e] # history.initial[e]

\* ---------------------------------------------------------- RenameObject
\* Strings are sequences of tokens.  A search pattern is written with literal
\* characters, "." (any character) and the group parentheses; a replacement
\* with literal characters and the group reference \1.
PatTokens == {"a", ".", "(", ")"}
ReplTokens == {"b", "\\1"}

SeqsUpTo(S, n) == UNION {[1..k -> S] : k \in 0..n}

\* nesting depth of the pattern after its first i tokens
ParenDepth(p, i) ==
    Cardinality({j \in 1..i : p[j] = "("}) - Cardinality({j \in 1..i : p[j] = ")"})

\* re.compile accepts the pattern: every ")" closes a "(", and none stays open
PatValid(p) ==
    /\ \A i \in 1..Len(p) : ParenDepth(p, i) >= 0
    /\ ParenDepth(p, Len(p)) = 0

NGroups(p) == Cardinality({j \in 1..Len(p) : p[j] = "("})

\* the tokens that consume a character
IsAtom(t) == t \notin {"(", ")"}
Atoms(p) == SelectSeq(p, IsAtom)
AtomsBefore(p, i) == Cardinality({j \in 1..(i - 1) : IsAtom(p[j])})

\* group 1 opens at the first "(" and closes at the ")" matching it
Group1Open(p) == CHOOSE i \in 1..Len(p) : p[i] = "(" /\ \A j \in 1..(i - 1) : p[j] # "("
Group1Close(p) ==
    LET o == Group1Open(p) IN
    CHOOSE i \in (o + 1)..Len(p) :
        /\ ParenDepth(p, i) = ParenDepth(p, o) - 1
        /\ \A j \in (o + 1)..(i - 1) : ParenDepth(p, j) >= ParenDepth(p, o)

\* the template is accepted: \1 needs a group 1 in the pattern
ReplValid(p, r) == (\E k \in 1..Len(r) : r[k] = "\\1") => NGroups(p) >= 1

\* the pattern matches s starting at position i
MatchAt(p, s, i) ==
    LET as == Atoms(p) IN
    /\ i + Len(as) - 1 <= Len(s)
    /\ \A k \in 1..Len(as) : as[k] = "." \/ as[k] = s[i + k - 1]

\* what group 1 captured in the match at i
Group1(p, s, i) ==
    SubSeq(s, i + AtomsBefore(p, Group1Open(p)), i + AtomsBefore(p, Group1Close(p)) - 1)

\* the template expanded for the match at i
RECURSIVE Expand(_, _, _, _)
Expand(p, r, s, i) ==
    IF r = <<>> THEN <<>>
    ELSE (IF Head(r) = "\\1" THEN Group1(p, s, i) ELSE <<Head(r)>>) \o Expand(p, Tail(r), s, i)

\* re.sub's scan from position i: replace the match here and go on behind it
\* (an empty match is followed by the character it stands before), or copy
\* the character
RECURSIVE SubFrom(_, _, _, _)
SubFrom(p, r, s, i) ==
    LET n == Len(Atoms(p)) IN
    IF i > Len(s) + 1 THEN <<>>
    ELSE IF MatchAt(p, s, i)
    THEN IF n = 0
         THEN Expand(p, r, s, i) \o (IF i <= Len(s) THEN <<s[i]>> ELSE <<>>) \o SubFrom(p, r, s, i + 1)
         ELSE Expand(p, r, s, i) \o SubFrom(p, r, s, i + n)
    ELSE (IF i <= Len(s) THEN <<s[i]>> ELSE <<>>) \o SubFrom(p, r, s, i + 1)

\* a bug that passes count=1: only the first match is replaced
SubFirstOnly(p, r, s) ==
    IF \E i \in 1..(Len(s) + 1) : MatchAt(p, s, i)
    THEN LET i == CHOOSE x \in 1..(Len(s) + 1) :
                      MatchAt(p, s, x) /\ \A y \in 1..(x - 1) : ~MatchAt(p, s, y)
         IN SubSeq(s, 1, i - 1) \o Expand(p, r, s, i) \o SubSeq(s, i + Len(Atoms(p)), Len(s))
    ELSE s

\* re.sub(sSearch, sReplace, sName) for a valid pattern and template
ReSub(p, r, s) == SubFrom(p, r, s, 1)

\* configurations of RenameObject; a field that is not given takes its default
RenameConfigs ==
    {c \in [sReplace : SeqsUpTo(ReplTokens, MaxRepl), bHasReplace : BOOLEAN,
            bUseRegEx : {"true", "false", "absent"},
            sSearch : SeqsUpTo(PatTokens, MaxPat), bHasSearch : BOOLEAN] :
        /\ (~c.bHasReplace => c.sReplace = <<>>)
        /\ (~c.bHasSearch => c.sSearch = <<>>)}

\* a bug that appends the replacement to the old name
RenameNewNameAppends(sName, sReplace, bUseRegEx, sSearch) ==
    IF bUseRegEx THEN ReSub(sSearch, sReplace, sName) ELSE sName \o sReplace

\* lines 510-521: the new name
RenameNewName(sName, sReplace, bUseRegEx, sSearch) ==
    IF bUseRegEx THEN ReSub(sSearch, sReplace, sName) ELSE sReplace

RenameObject(o, cfg) ==
    LET bUseRegEx == cfg.bUseRegEx = "true"
        bad == bUseRegEx /\ ~(PatValid(cfg.sSearch) /\ ReplValid(cfg.sSearch, cfg.sReplace))
    IN
    /\ ModuleLoaded
    /\ pre' = Snapshot
    /\ IF ~cfg.bHasReplace
       THEN /\ lastCall' = Call("RenameObject", o, cfg, <<"parse">>, "Param")
            /\ UNCHANGED name
       ELSE IF bad
       THEN /\ lastCall' = Call("RenameObject", o, cfg, <<"parse", "read">>, "re.error")
            /\ UNCHANGED name
       ELSE /\ name' = [name EXCEPT ![o] = RenameNewName(name[o], cfg.sReplace, bUseRegEx, cfg.sSearch)]
            /\ lastCall' = Call("RenameObject", o, cfg, <<"parse", "read", "write">>, "none")
    /\ hostCalls' = <<>>
    /\ UNCHANGED <<history, g_bInBlenderContext, parent, hide_render, hide_viewport, props, attrs, objType, dirs,
                   boxHolds>>

\* the drawn names: non-empty strings over Chars
Names == SeqsUpTo(Chars, MaxLen) \ {<<>>}

InitRename ==
    \E s \in Names :
        InitWith(Flat, Shown, [o \in Objs |-> IF o = 1 THEN s ELSE <<"c">> \o InitName(o)],
                 Meshes, InitDirs, {})

\* each behaviour renames object 1 once: the result depends on the inputs alone
NextRename == Once /\ \E cfg \in RenameConfigs : RenameObject(1, cfg)

SpecRename == InitRename /\ [][NextRename]_vars

RenameDone(bRegEx) ==
    /\ lastCall.fn = "RenameObject" /\ lastCall.err = "none"
    /\ (lastCall.cfg.bUseRegEx = "true") = bRegEx

\* C2: with literal replacement (bUseRegEx false or absent) the name after the
\* call is exactly sReplace, whatever the previous name and sSearch
RenameLiteralYieldsReplace ==
    RenameDone(FALSE) => name[lastCall.obj] = lastCall.cfg.sReplace

\* a literal rename ran with a pattern that matches the previous name
RenameLiteralWitness ==
    /\ RenameDone(FALSE)
    /\ lastCall.cfg.sSearch # <<>> /\ PatValid(lastCall.cfg.sSearch)
    /\ MatchAt(lastCall.cfg.sSearch, pre.name[lastCall.obj], 1)
    /\ name[lastCall.obj] # pre.name[lastCall.obj]

\* the pattern of the last call matches somewhere in the name it was given
LastMatches ==
    \E i \in 1..(Len(pre.name[lastCall.obj]) + 1) :
        MatchAt(lastCall.cfg.sSearch, pre.name[lastCall.obj], i)

\* The leftmost non-overlapping matches of p in s: every start matches, no two
\* overlap, and a matching position left out lies inside an earlier match.
MatchStarts(p, s) ==
    LET n == Len(Atoms(p)) IN
    CHOOSE S \in SUBSET (1..(Len(s) + 1)) :
        /\ \A i \in S : MatchAt(p, s, i)
        /\ \A i, j \in S : i < j => i + n <= j
        /\ \A i \in (1..(Len(s) + 1)) \ S :
              MatchAt(p, s, i) => \E j \in S : j < i /\ i < j + n

\* s with the matches at MatchStarts replaced, position by position
RECURSIVE Replaced(_, _, _, _)
Replaced(p, r, s, i) ==
    LET S == MatchStarts(p, s)
        n == Len(Atoms(p))
        piece == IF i \in S
                 THEN Expand(p, r, s, i) \o (IF n = 0 /\ i <= Len(s) THEN <<s[i]>> ELSE <<>>)
                 ELSE IF i > Len(s) \/ \E j \in S : j < i /\ i < j + n
                 THEN <<>>
                 ELSE <<s[i]>>
    IN IF i > Len(s) + 1 THEN <<>> ELSE piece \o Replaced(p, r, s, i + 1)

\* C3 as stated: the name is unchanged only if the pattern matches nowhere, and
\* otherwise it is the name with the matches replaced
RenameRegExUnchangedOnlyIfNoMatch ==
    RenameDone(TRUE) =>
        /\ (name[lastCall.obj] = pre.name[lastCall.obj] => ~LastMatches)
        /\ (LastMatches => name[lastCall.obj] =
                Replaced(lastCall.cfg.sSearch, lastCall.cfg.sReplace, pre.name[lastCall.obj], 1))

\* C3 amended: a pattern that matches nowhere leaves the name unchanged, and a
\* pattern that matches yields the name with every leftmost non-overlapping
\* match replaced by the expanded template (which may be the old name again)
RenameRegExSubstitutes ==
    RenameDone(TRUE) =>
        /\ (~LastMatches => name[lastCall.obj] = pre.name[lastCall.obj])
        /\ (LastMatches => name[lastCall.obj] =
                Replaced(lastCall.cfg.sSearch, lastCall.cfg.sReplace, pre.name[lastCall.obj], 1))

\* a regex rename replaced two matches through a group reference
RenameRegExWitness ==
    /\ RenameDone(TRUE)
    /\ Cardinality(MatchStarts(lastCall.cfg.sSearch, pre.name[lastCall.obj])) = 2
    /\ \E k \in 1..Len(lastCall.cfg.sReplace) : lastCall.cfg.sReplace[k] = "\\1"
    /\ Len(Atoms(lastCall.cfg.sSearch)) > 0
    /\ name[lastCall.obj] # pre.name[lastCall.obj]

\* --------------------------------------- ModifyProperties, ModifyAttributes
\* A value of an mValues entry carries its Python type.  isinstance follows
\* the type hierarchy: bool is a subclass of int.
ValTypes == {"int", "float", "str", "bool", "list", "dict", "NoneType"}
IsInstance(x, cls) == x.t = cls \/ (cls = "int" /\ x.t = "bool")

\* a key of mValues that is not a string is written <<"#int">>
NonStrKey == <<"#int">>
IsStr(sKey) == sKey # NonStrKey

\* mValues as its items in iteration order: a dict holds every key once
Entry(k, v) == [key |-> k, val |-> v]
Dicts(Keys, Vals, n) ==
    {d \in SeqsUpTo([key : Keys, val : Vals], n) :
        \A i, j \in 1..Len(d) : i # j => d[i].key # d[j].key}

\* what the configuration holds as mValues: a dict, something else, or nothing
ModConfigs(Keys, Vals) ==
    {c \in [shape : {"dict", "other", "missing"}, mValues : Dicts(Keys, Vals, MaxEntries)] :
        c.shape # "dict" => c.mValues = <<>>}

\* a bug that lets every value type through
PropTypeAny(xValue) == TRUE

\* line 267: the value types a custom property may take
PropTypeOk(xValue) ==
    IsInstance(xValue, "int") \/ IsInstance(xValue, "float") \/ IsInstance(xValue, "str")

\* lines 258-275: the loop over the items from entry i on, on the object's
\* properties pr; it ends at the first entry that raises
RECURSIVE PropsLoop(_, _, _, _)
PropsLoop(pr, d, i, sObjName) ==
    IF i > Len(d) THEN [st |-> pr, err |-> "none", at |-> 0, msg |-> <<>>]
    ELSE LET sKey == d[i].key
             xValue == d[i].val
         IN IF ~IsStr(sKey)
            THEN [st |-> pr, err |-> "RuntimeError:key type", at |-> i, msg |-> <<sKey>>]
            ELSE IF sKey \notin DOMAIN pr
            THEN [st |-> pr, err |-> "RuntimeError:not found", at |-> i, msg |-> <<sKey, sObjName>>]
            ELSE IF PropTypeOk(xValue)
            THEN PropsLoop([pr EXCEPT ![sKey] = xValue], d, i + 1, sObjName)
            ELSE [st |-> pr, err |-> "RuntimeError:type", at |-> i, msg |-> <<sKey, <<xValue.t>>>>]

\* Line 254 reads mp.dicValues, a field CModifyPropertiesParams does not
\* declare (it declares mValues): the read either raises AttributeError or
\* is resolved to mValues by the parameter class; bResolves is which.
ModifyProperties(o, cfg, bResolves) ==
    /\ ModuleLoaded
    /\ pre' = Snapshot
    /\ IF cfg.shape = "missing"
       THEN /\ lastCall' = Call("ModifyProperties", o, cfg, <<"assert", "parse">>, "Param")
            /\ UNCHANGED props /\ hostCalls' = <<>>
       ELSE IF ~bResolves
       THEN /\ lastCall' = Call("ModifyProperties", o, cfg, <<"assert", "parse">>, "AttributeError")
            /\ UNCHANGED props /\ hostCalls' = <<>>
       ELSE IF cfg.shape # "dict"
       THEN /\ lastCall' = Call("ModifyProperties", o, cfg, <<"assert", "parse">>, "RuntimeError:mValues")
            /\ UNCHANGED props /\ hostCalls' = <<>>
       ELSE LET r == PropsLoop(props[o], cfg.mValues, 1, name[o]) IN
            /\ props' = [props EXCEPT ![o] = r.st]
            /\ lastCall' = CallAt("ModifyProperties", o, cfg,
                                   <<"assert", "parse", "read", "write">>, r.err, r.at, r.msg)
            /\ hostCalls' = IF r.err = "none" THEN <<[op |-> "update_tag", obj |-> o]>> ELSE <<>>
    /\ UNCHANGED <<history, g_bInBlenderContext, parent, hide_render, hide_viewport, name, attrs, objType, dirs,
                   boxHolds>>

\* ---- attributes
\* An object has the attributes x (a value), r (a read-only value) and d (an
\* object of its own, with x and r); a node of this tree is the path to it.
AttrNames(node) ==
    IF node = <<>> THEN {"x", "r", "d"}
    ELSE IF node = <<"d">> THEN {"x", "r"}
    ELSE {}

\* hasattr(objY, sSubKey): the segment is the name of an attribute of the node
HasAttr(node, sSubKey) == Len(sSubKey) = 1 /\ sSubKey[1] \in AttrNames(node)

\* getattr(objY, sSubKey)
GetAttr(node, sSubKey) == Append(node, sSubKey[1])

\* setattr succeeds on the value attributes x; r and d refuse assignment
Writable(slot) == slot \in {<<"x">>, <<"d", "x">>}

\* sKey.split(".")
RECURSIVE Split(_)
Split(sKey) ==
    IF \E i \in 1..Len(sKey) : sKey[i] = "."
    THEN LET i == CHOOSE x \in 1..Len(sKey) :
                      sKey[x] = "." /\ \A y \in 1..(x - 1) : sKey[y] # "."
         IN <<SubSeq(sKey, 1, i - 1)>> \o Split(SubSeq(sKey, i + 1, Len(sKey)))
    ELSE <<sKey>>

\* lines 350-362: walk the segments from objY on
RECURSIVE Walk(_, _, _)
Walk(objY, lKey, iIdx) ==
    IF ~HasAttr(objY, lKey[iIdx])
    THEN [ok |-> FALSE, objY |-> objY, sSubKey |-> lKey[iIdx]]
    ELSE IF iIdx >= Len(lKey)
    THEN [ok |-> TRUE, objY |-> objY, sSubKey |-> lKey[iIdx]]
    ELSE Walk(GetAttr(objY, lKey[iIdx]), lKey, iIdx + 1)

\* a bug that leaves the final segment unchecked
RECURSIVE WalkToParent(_, _, _)
WalkToParent(objY, lKey, iIdx) ==
    IF iIdx >= Len(lKey)
    THEN [ok |-> TRUE, objY |-> objY, sSubKey |-> lKey[iIdx]]
    ELSE IF ~HasAttr(objY, lKey[iIdx])
    THEN [ok |-> FALSE, objY |-> objY, sSubKey |-> lKey[iIdx]]
    ELSE WalkToParent(GetAttr(objY, lKey[iIdx]), lKey, iIdx + 1)

\* lines 345-362 for one key: split it and walk from the object
ResolveKeyUnchecked(sKey) == WalkToParent(<<>>, Split(sKey), 1)
ResolveKey(sKey) == Walk(<<>>, Split(sKey), 1)

\* a bug that undoes the entries already applied when one entry raises
RECURSIVE AttrsLoopRollback(_, _, _, _)
AttrsLoopRollback(at, d, i, sObjName) ==
    IF i > Len(d) THEN [st |-> at, err |-> "none", at |-> 0, msg |-> <<>>]
    ELSE LET w == IF IsStr(d[i].key) THEN ResolveKey(d[i].key)
                  ELSE [ok |-> FALSE, objY |-> <<>>, sSubKey |-> <<>>]
             slot == w.objY \o w.sSubKey
         IN IF w.ok /\ Writable(slot)
            THEN LET r == AttrsLoopRollback([at EXCEPT ![slot] = d[i].val], d, i + 1, sObjName)
                 IN IF r.err = "none" THEN r ELSE [r EXCEPT !.st = at]
            ELSE [st |-> at, err |-> "Exception", at |-> i, msg |-> <<d[i].key, sObjName>>]

\* lines 340-371: the loop over the items from entry i on, on the object's
\* attribute values at; it ends at the first entry that raises
RECURSIVE AttrsLoop(_, _, _, _)
AttrsLoop(at, d, i, sObjName) ==
    IF i > Len(d) THEN [st |-> at, err |-> "none", at |-> 0, msg |-> <<>>]
    ELSE LET sKey == d[i].key IN
         IF ~IsStr(sKey)
         THEN [st |-> at, err |-> "RuntimeError:key type", at |-> i, msg |-> <<sKey>>]
         ELSE LET w == ResolveKey(sKey) IN
              IF ~w.ok
              THEN [st |-> at, err |-> "RuntimeError:no attribute", at |-> i,
                    msg |-> <<w.objY, w.sSubKey>>]
              ELSE LET slot == w.objY \o w.sSubKey IN
                   IF Writable(slot)
                   THEN AttrsLoop([at EXCEPT ![slot] = d[i].val], d, i + 1, sObjName)
                   ELSE [st |-> at, err |-> "Exception:could not set", at |-> i,
                         msg |-> <<sKey, sObjName>>]

ModifyAttributes(o, cfg) ==
    /\ ModuleLoaded
    /\ pre' = Snapshot
    /\ hostCalls' = <<>>
    /\ IF cfg.shape = "missing"
       THEN /\ lastCall' = Call("ModifyAttributes", o, cfg, <<"parse">>, "Param")
            /\ UNCHANGED attrs
       ELSE IF cfg.shape # "dict"
       THEN /\ lastCall' = Call("ModifyAttributes", o, cfg, <<"parse", "assert">>, "RuntimeError:mValues")
            /\ UNCHANGED attrs
       ELSE LET r == AttrsLoop(attrs[o], cfg.mValues, 1, name[o]) IN
            /\ attrs' = [attrs EXCEPT ![o] = r.st]
            /\ lastCall' = CallAt("ModifyAttributes", o, cfg,
                                   <<"parse", "assert", "read", "write">>, r.err, r.at, r.msg)
    /\ UNCHANGED <<history, g_bInBlenderContext, parent, hide_render, hide_viewport, name, props, objType, dirs,
                   boxHolds>>

\* the keys and values drawn for the two modifiers
PropCfgKeys == PropKeys \cup {<<"u">>, NonStrKey}
PropCfgVals == {Val(t, 1) : t \in ValTypes}
AttrCfgKeys == {<<"x">>, <<"r">>, <<"d">>, <<"q">>, <<"d", ".", "x">>, <<"d", ".", "r">>,
                <<"d", ".", "q">>, <<"q", ".", "x">>, <<"x", ".", "x">>, <<"d", "x">>,
                <<>>, <<".", "x">>, <<"d", ".">>, NonStrKey}
AttrCfgVals == {Val("int", 1), Val("str", 2)}

InitModify == InitWith(Flat, Shown, InitNames, Meshes, InitDirs, {})

\* each behaviour applies one modifier once to a drawn object
NextModify ==
    \/ Once /\ \E o \in Objs, cfg \in ModConfigs(PropCfgKeys, PropCfgVals), b \in BOOLEAN : ModifyProperties(o, cfg, b)
    \/ Once /\ \E o \in Objs, cfg \in ModConfigs(AttrCfgKeys, AttrCfgVals) : ModifyAttributes(o, cfg)

SpecModify == InitModify /\ [][NextModify]_vars

LastIs(fn) == lastCall.fn = fn
LastEntries == lastCall.cfg.mValues
\* the entries the last call went through without raising
LastPassed ==
    IF lastCall.err = "none" THEN 1..Len(LastEntries)
    ELSE IF lastCall.at = 0 THEN {}
    ELSE 1..(lastCall.at - 1)

\* the entry names no custom property the object had, or its value is neither
\* numeric nor a string
PropEntryBad(e) ==
    \/ e.key \notin DOMAIN pre.props[lastCall.obj]
    \/ e.val.t \notin {"int", "bool", "float", "str"}

\* C4: every entry whose key is no custom property of the object or whose
\* value is not numeric or a string makes the call raise with that key left as
\* it was, and a property changes only to the value of an entry that is neither
ModifyPropertiesRejects ==
    LastIs("ModifyProperties") =>
        LET o == lastCall.obj IN
        /\ DOMAIN props[o] = DOMAIN pre.props[o]
        /\ \A i \in 1..Len(LastEntries) :
              PropEntryBad(LastEntries[i]) =>
                 /\ lastCall.err # "none"
                 /\ (LastEntries[i].key \in DOMAIN props[o] =>
                        props[o][LastEntries[i].key] = pre.props[o][LastEntries[i].key])
        /\ \A k \in DOMAIN props[o] :
              props[o][k] # pre.props[o][k] =>
                 \E i \in 1..Len(LastEntries) :
                    /\ LastEntries[i] = Entry(k, props[o][k])
                    /\ ~PropEntryBad(LastEntries[i])

\* a call assigned its first entry and raised at the second, a list for a
\* property the object has
ModifyPropertiesWitness ==
    /\ LastIs("ModifyProperties") /\ lastCall.at = 2
    /\ LastEntries[2].val.t = "list"
    /\ LastEntries[2].key \in DOMAIN props[lastCall.obj]
    /\ props[lastCall.obj][LastEntries[1].key] = LastEntries[1].val

\* The attribute a dotted key names, read off the key itself: names of one
\* character separated by single dots, each an attribute of the node before.
KeyWellFormed(sKey) ==
    /\ Len(sKey) % 2 = 1
    /\ \A i \in 1..Len(sKey) : (sKey[i] = ".") = (i % 2 = 0)
KeySlot(sKey) == [i \in 1..((Len(sKey) + 1) \div 2) |-> sKey[2 * i - 1]]
KeyExists(sKey) ==
    /\ IsStr(sKey) /\ KeyWellFormed(sKey)
    /\ \A i \in 1..Len(KeySlot(sKey)) :
          KeySlot(sKey)[i] \in AttrNames(SubSeq(KeySlot(sKey), 1, i - 1))

\* C5: every key gone through names an existing attribute, which now holds the
\* configured value; the key the call raised at either has a segment that is no
\* attribute (nothing is set for it) or names an attribute whose assignment
\* failed, and that error names the full key and the object
ModifyAttributesWalks ==
    (LastIs("ModifyAttributes") /\ lastCall.cfg.shape = "dict") =>
        LET o == lastCall.obj
            k == lastCall.at
        IN
        /\ \A i \in LastPassed :
              /\ KeyExists(LastEntries[i].key)
              /\ attrs[o][KeySlot(LastEntries[i].key)] = LastEntries[i].val
        /\ lastCall.err # "none" =>
              /\ k \in 1..Len(LastEntries)
              /\ IF KeyExists(LastEntries[k].key)
                 THEN /\ lastCall.err = "Exception:could not set"
                      /\ lastCall.msg = <<LastEntries[k].key, name[o]>>
                      /\ attrs[o][KeySlot(LastEntries[k].key)] =
                            pre.attrs[o][KeySlot(LastEntries[k].key)]
                 ELSE lastCall.err \in {"RuntimeError:no attribute", "RuntimeError:key type"}
        /\ \A sl \in Slots :
              attrs[o][sl] # pre.attrs[o][sl] =>
                 \E i \in LastPassed : KeySlot(LastEntries[i].key) = sl

\* a call set d.x through the key "d.x" and then raised at a key whose final
\* segment is no attribute of d
ModifyAttributesWitness ==
    /\ LastIs("ModifyAttributes") /\ lastCall.at = 2
    /\ LastEntries[1].key = <<"d", ".", "x">>
    /\ attrs[lastCall.obj][<<"d", "x">>] = LastEntries[1].val
    /\ LastEntries[2].key = <<"d", ".", "q">>
    /\ lastCall.err = "RuntimeError:no attribute"

\* entry i of the last call is in effect / has had no effect
EntryApplied(i) ==
    LET e == LastEntries[i]
        o == lastCall.obj
    IN IF LastIs("ModifyProperties")
       THEN e.key \in DOMAIN props[o] /\ props[o][e.key] = e.val
       ELSE KeyExists(e.key) /\ attrs[o][KeySlot(e.key)] = e.val
EntryNotApplied(i) ==
    LET e == LastEntries[i]
        o == lastCall.obj
    IN IF LastIs("ModifyProperties")
       THEN e.key \in DOMAIN props[o] => props[o][e.key] = pre.props[o][e.key]
       ELSE KeyExists(e.key) => attrs[o][KeySlot(e.key)] = pre.attrs[o][KeySlot(e.key)]

\* C6: a call that raises at entry k has applied exactly the entries before k,
\* and a call that returns has applied them all; nothing applied is undone
ModifyAppliesPrefix ==
    (LastIs("ModifyProperties") \/ LastIs("ModifyAttributes")) =>
        /\ \A i \in 1..Len(LastEntries) :
              IF i \in LastPassed THEN EntryApplied(i) ELSE EntryNotApplied(i)
        /\ lastCall.err = "none" => lastCall.at = 0
        /\ lastCall.at > 0 => lastCall.err # "none"

\* a call of either modifier raised at its second entry with its first applied
\* and its second not
ModifyPrefixWitness(fn) ==
    /\ LastIs(fn) /\ lastCall.at = 2 /\ lastCall.err # "none"
    /\ EntryApplied(1) /\ ~EntryNotApplied(1)
    /\ EntryNotApplied(2) /\ ~EntryApplied(2)
ModifyPrefixWitnessAttributes == ModifyPrefixWitness("ModifyAttributes")

\* ---------------------------------------------------------- ParentToObject
ParentConfigs ==
    {c \in [sParentObject : {InitName(o) : o \in Objs} \cup {<<"z">>, <<>>},
            bHasParent : BOOLEAN,
            bKeepTransform : {"true", "false", "absent"},
            bSkipNonexistingParent : {"true", "false", "absent"}] :
        ~c.bHasParent => c.sParentObject = <<>>}

\* a bug that skips unless told to
SkipMissingInverted(cfg) == cfg.bSkipNonexistingParent # "true"

\* lines 389, 423: mp.bSkipNonexistingParent, False when not given
SkipMissing(cfg) == cfg.bSkipNonexistingParent = "true"

ParentToObject(o, cfg) ==
    /\ ModuleLoaded
    /\ pre' = Snapshot
    /\ IF ~cfg.bHasParent
       THEN /\ lastCall' = Call("ParentToObject", o, cfg, <<"parse">>, "Param")
            /\ hostCalls' = <<>>
            /\ UNCHANGED parent
       ELSE IF objType[o] = "CAMERA"
       THEN /\ hostCalls' = <<[op |-> "ParentAnyCam", sCamId |-> name[o],
                                sParentId |-> cfg.sParentObject],
                               [op |-> "anyvl.Update"]>>
            /\ lastCall' = Call("ParentToObject", o, cfg, <<"parse", "read", "write">>, "none")
            /\ UNCHANGED parent
       ELSE LET objParent == ObjectsGet(cfg.sParentObject) IN
            IF objParent = None
            THEN IF ~SkipMissing(cfg)
                 THEN /\ lastCall' = CallAt("ParentToObject", o, cfg, <<"parse", "read">>,
                                            "RuntimeError:not found", 0, <<cfg.sParentObject>>)
                      /\ hostCalls' = <<>>
                      /\ UNCHANGED parent
                 ELSE /\ lastCall' = Call("ParentToObject", o, cfg, <<"parse", "read">>, "none")
                      /\ hostCalls' = <<[op |-> "anyvl.Update"]>>
                      /\ UNCHANGED parent
            ELSE /\ parent' = [parent EXCEPT ![o] = objParent]
                 /\ hostCalls' = <<[op |-> "ParentObject", objParent |-> objParent, objX |-> o,
                                     bKeepTransform |-> (cfg.bKeepTransform = "true")],
                                    [op |-> "anyvl.Update"]>>
                 /\ lastCall' = Call("ParentToObject", o, cfg, <<"parse", "read", "write">>, "none")
    /\ UNCHANGED <<history, g_bInBlenderContext, hide_render, hide_viewport, name, props, attrs, objType,
                   dirs, boxHolds>>

ObjTypes == [Objs -> {"MESH", "CAMERA"}]

InitParent ==
    \E par \in Hierarchies, ty \in ObjTypes : InitWith(par, Shown, InitNames, ty, InitDirs, {})

NextParent == Once /\ \E o \in Objs, cfg \in ParentConfigs : ParentToObject(o, cfg)

SpecParent == InitParent /\ [][NextParent]_vars

\* the host calls of the last call with the given name
HostOps(op) == {i \in 1..Len(hostCalls) : hostCalls[i].op = op}

\* the configured target names no object of the scene the call began in
TargetMissing == \A t \in Objs : pre.name[t] # lastCall.cfg.sParentObject

\* C7: on a non-camera object a missing target leaves the parent unchanged,
\* without error when bSkipNonexistingParent is true and with an error when it
\* is false or absent; an existing target becomes the parent, with the
\* configured bKeepTransform; a camera goes through ParentAnyCam alone
ParentToObjectHandlesTarget ==
    (LastIs("ParentToObject") /\ lastCall.cfg.bHasParent) =>
        LET o == lastCall.obj
            cfg == lastCall.cfg
        IN
        IF objType[o] = "CAMERA"
        THEN /\ HostOps("ParentAnyCam") # {} /\ HostOps("ParentObject") = {}
             /\ \A i \in HostOps("ParentAnyCam") :
                   hostCalls[i].sCamId = name[o] /\ hostCalls[i].sParentId = cfg.sParentObject
        ELSE /\ HostOps("ParentAnyCam") = {}
             /\ IF TargetMissing
                THEN /\ parent = pre.parent
                     /\ HostOps("ParentObject") = {}
                     /\ (lastCall.err = "none") = (cfg.bSkipNonexistingParent = "true")
                ELSE /\ lastCall.err = "none"
                     /\ name[parent[o]] = cfg.sParentObject
                     /\ \A t \in Objs \ {o} : parent[t] = pre.parent[t]
                     /\ \E i \in HostOps("ParentObject") :
                           /\ hostCalls[i].objX = o /\ hostCalls[i].objParent = parent[o]
                           /\ hostCalls[i].bKeepTransform = (cfg.bKeepTransform = "true")

\* a mesh that had a parent was told to skip a missing target, and kept it
ParentSkipWitness ==
    /\ LastIs("ParentToObject") /\ lastCall.err = "none"
    /\ objType[lastCall.obj] = "MESH" /\ lastCall.cfg.bHasParent /\ TargetMissing
    /\ lastCall.cfg.bSkipNonexistingParent = "true"
    /\ parent[lastCall.obj] # None

\* --------------------------------------------------------- ExportObjectObj
\* A path is absolute or relative and a sequence of segments.
Path(abs, segs) == [abs |-> abs, segs |-> segs]

\* path.MakeNormPath: ".." takes back the segment before it; at the root of an
\* absolute path it is dropped, at the head of a relative one it stays
RECURSIVE NormSegs(_, _, _)
NormSegs(abs, done, rest) ==
    IF rest = <<>> THEN done
    ELSE IF Head(rest) # ".." THEN NormSegs(abs, Append(done, Head(rest)), Tail(rest))
    ELSE IF done # <<>> /\ done[Len(done)] # ".."
    THEN NormSegs(abs, SubSeq(done, 1, Len(done) - 1), Tail(rest))
    ELSE IF abs THEN NormSegs(abs, done, Tail(rest))
    ELSE NormSegs(abs, Append(done, ".."), Tail(rest))

MakeNormPath(pa) == Path(pa.abs, NormSegs(pa.abs, <<>>, pa.segs))

\* lines 650-655: the path the export writes to
ResolvePath(sFilePath) ==
    LET pathFile == MakeNormPath(sFilePath) IN
    IF ~pathFile.abs
    THEN MakeNormPath(Path(TRUE, BlendDir \o pathFile.segs))
    ELSE pathFile

\* pathFile.parent
ParentDir(pa) == IF pa.segs = <<>> THEN <<>> ELSE SubSeq(pa.segs, 1, Len(pa.segs) - 1)

\* mkdir(parents=True, exist_ok=True): the directory and every one above it
MkdirParents(ds, d) == ds \cup {SubSeq(d, 1, n) : n \in 0..Len(d)}

\* a bug that creates the directory whatever bCreatePath says
CreateAlways(cfg) == TRUE

\* lines 636, 657: mp.bCreatePath is True, False when not given
CreateRequested(cfg) == cfg.bCreatePath = "true"

ExportPaths ==
    {Path(TRUE, <<"out", "m.obj">>), Path(TRUE, <<"m.obj">>), Path(TRUE, <<"proj", "out", "m.obj">>),
     Path(FALSE, <<"m.obj">>), Path(FALSE, <<"out", "m.obj">>), Path(FALSE, <<"out", "sub", "m.obj">>),
     Path(FALSE, <<"..", "out", "m.obj">>), Path(FALSE, <<"out", "..", "m.obj">>),
     Path(TRUE, <<"out", "..", "new", "m.obj">>)}

ExportConfigs ==
    {c \in [sFilePath : ExportPaths \cup {Path(FALSE, <<>>)}, bHasPath : BOOLEAN,
            bCreatePath : {"true", "false", "absent"}] :
        c.bHasPath = (c.sFilePath.segs # <<>>)}

\* bMkdirOk: whether the file system lets the directory be created
ExportObjectObj(o, cfg, bMkdirOk) ==
    /\ ModuleLoaded
    /\ pre' = Snapshot
    /\ IF ~cfg.bHasPath
       THEN /\ lastCall' = Call("ExportObjectObj", o, cfg, <<"parse">>, "Param")
            /\ hostCalls' = <<>>
            /\ UNCHANGED dirs
       ELSE LET pathFile == ResolvePath(cfg.sFilePath)
                bMkdir == ParentDir(pathFile) \notin dirs /\ CreateRequested(cfg)
                dirs1 == IF bMkdir /\ bMkdirOk THEN MkdirParents(dirs, ParentDir(pathFile)) ELSE dirs
            IN
            /\ dirs' = dirs1
            /\ IF bMkdir /\ ~bMkdirOk
               THEN /\ lastCall' = Call("ExportObjectObj", o, cfg, <<"parse", "read", "mkdir">>, "OSError")
                    /\ hostCalls' = <<>>
               ELSE IF ParentDir(pathFile) \notin dirs1
               THEN /\ lastCall' = CallAt("ExportObjectObj", o, cfg, <<"parse", "read">>,
                                          "RuntimeError:path", 0, <<name[o], ParentDir(pathFile)>>)
                    /\ hostCalls' = <<>>
               ELSE /\ lastCall' = Call("ExportObjectObj", o, cfg,
                                        IF bMkdir THEN <<"parse", "read", "mkdir", "export">>
                                        ELSE <<"parse", "read", "export">>, "none")
                    /\ hostCalls' = <<[op |-> "ExportFromScene_Obj", pathFile |-> pathFile,
                                        objX |-> o]>>
    /\ UNCHANGED <<history, g_bInBlenderContext, parent, hide_render, hide_viewport, name, props, attrs,
                   objType, boxHolds>>

\* the directories a behaviour may find: each with the ones above it
DirChoices ==
    {ds \in SUBSET {<<"out">>, <<"proj", "out">>, <<"proj", "out", "sub">>, <<"new">>} :
        <<"proj", "out", "sub">> \in ds => <<"proj", "out">> \in ds}

InitExport == \E ds \in DirChoices : InitWith(Flat, Shown, InitNames, Meshes, InitDirs \cup ds, {})

NextExport ==
    Once /\ \E o \in Objs, cfg \in ExportConfigs, b \in BOOLEAN : ExportObjectObj(o, cfg, b)

SpecExport == InitExport /\ [][NextExport]_vars

NoDotDot(segs) == \A i \in 1..Len(segs) : segs[i] # ".."

\* C8: when the destination directory does not exist and bCreatePath is not
\* true the call raises, creates nothing and exports nothing; an export happens
\* only with the parent directory of its path existing, and its path is the
\* given one when that is absolute, the given one under the scene file's
\* directory when it is relative
ExportNeedsDirectory ==
    (LastIs("ExportObjectObj") /\ lastCall.cfg.bHasPath) =>
        LET cfg == lastCall.cfg IN
        /\ (ParentDir(ResolvePath(cfg.sFilePath)) \notin pre.dirs /\ cfg.bCreatePath # "true") =>
              /\ lastCall.err = "RuntimeError:path"
              /\ dirs = pre.dirs
              /\ HostOps("ExportFromScene_Obj") = {}
        /\ \A i \in HostOps("ExportFromScene_Obj") :
              /\ ParentDir(hostCalls[i].pathFile) \in dirs
              /\ hostCalls[i].pathFile.abs
              /\ NoDotDot(cfg.sFilePath.segs) =>
                    hostCalls[i].pathFile.segs =
                        IF cfg.sFilePath.abs THEN cfg.sFilePath.segs
                        ELSE BlendDir \o cfg.sFilePath.segs
        /\ lastCall.err = "none" => HostOps("ExportFromScene_Obj") # {}

\* a relative path into a directory that does not exist was refused
ExportRefusedWitness ==
    /\ LastIs("ExportObjectObj") /\ lastCall.err = "RuntimeError:path"
    /\ ~lastCall.cfg.sFilePath.abs /\ lastCall.cfg.bCreatePath = "false"
    /\ <<"proj", "out">> \notin dirs
    /\ lastCall.msg[2] = <<"proj", "out">>

\* -------------------------------------------------------- EnableIfBoundBox
Relations == {"INSIDE", "OUTSIDE", "INTERSECT"}

\* Lines 169 and 570 bind mp to the parameter class itself, not to an instance
\* made from _dicMod: mp.<field> is then the class attribute, the field's
\* declaration, whatever the configuration holds.  It is no object name, no
\* relation and no list of attribute names.
FieldDecl == <<"#decl">>
ClassField(cfg, sField) == FieldDecl

\* anyobj.Hide(_objX, bHide, bHideRender, bRecursive=True): both flags, over
\* the subtree
HideAll(flags, o, bHide) == EnableRender(flags, o, ~bHide, TRUE)

BoundBoxConfigs ==
    {c \in [bDti : BOOLEAN, sTarget : {InitName(o) : o \in Objs} \cup {<<"z">>, <<>>},
            bHasTarget : BOOLEAN, bCompoundTarget : BOOLEAN, fBorder : {0, 1},
            sRelation : Relations \cup {"absent"}] :
        ~c.bHasTarget => c.sTarget = <<>>}

EnableIfBoundBox(o, cfg) ==
    LET sTarget == ClassField(cfg, "sTarget")
        sRelation == ClassField(cfg, "sRelation")
        objTarget == ObjectsGet(sTarget)
        bEnable == sRelation \in boxHolds
    IN
    /\ ModuleLoaded
    /\ pre' = Snapshot
    /\ hostCalls' = <<>>
    /\ IF ~cfg.bDti
       THEN /\ lastCall' = Call("EnableIfBoundBox", o, cfg, <<"assert", "type">>, "ConfigType")
            /\ UNCHANGED <<hide_render, hide_viewport>>
       ELSE IF objTarget = None
       THEN /\ lastCall' = CallAt("EnableIfBoundBox", o, cfg, <<"assert", "type", "read">>,
                                  "RuntimeError:target", 0, <<sTarget>>)
            /\ UNCHANGED <<hide_render, hide_viewport>>
       ELSE IF sRelation \notin Relations
       THEN /\ lastCall' = CallAt("EnableIfBoundBox", o, cfg, <<"assert", "type", "read">>,
                                  "RuntimeError:relation", 0, <<sRelation>>)
            /\ UNCHANGED <<hide_render, hide_viewport>>
       ELSE /\ hide_render' = HideAll(hide_render, o, ~bEnable)
            /\ hide_viewport' = HideAll(hide_viewport, o, ~bEnable)
            /\ lastCall' = Call("EnableIfBoundBox", o, cfg, <<"assert", "type", "read", "write">>, "none")
    /\ UNCHANGED <<history, g_bInBlenderContext, parent, name, props, attrs, objType, dirs, boxHolds>>

InitBoundBox ==
    \E par \in Hierarchies, hr \in [Objs -> BOOLEAN], bh \in SUBSET Relations :
        InitWith(par, hr, InitNames, Meshes, InitDirs, bh)

NextBoundBox == Once /\ \E o \in Objs, cfg \in BoundBoxConfigs : EnableIfBoundBox(o, cfg)

SpecBoundBox == InitBoundBox /\ [][NextBoundBox]_vars

\* C9: the relation the configuration names (INSIDE when it names none) is
\* tested against the target the configuration names, and the object and its
\* descendants are shown and rendered exactly when it holds; a target name
\* matching no object raises with visibility unchanged
EnableIfBoundBoxFollowsConfig ==
    (LastIs("EnableIfBoundBox") /\ lastCall.cfg.bDti /\ lastCall.cfg.bHasTarget) =>
        LET cfg == lastCall.cfg
            rel == IF cfg.sRelation = "absent" THEN "INSIDE" ELSE cfg.sRelation
        IN IF \E t \in Objs : pre.name[t] = cfg.sTarget
           THEN /\ lastCall.err = "none"
                /\ \A d \in Subtree(lastCall.obj) :
                      /\ hide_render[d] = ~(rel \in boxHolds)
                      /\ hide_viewport[d] = ~(rel \in boxHolds)
           ELSE /\ lastCall.err # "none"
                /\ hide_render = pre.hide_render
                /\ hide_viewport = pre.hide_viewport

\* ---------------------------------------------------------------- LogObject
LogConfigs == [lAttributes : SeqsUpTo({<<"p">>, <<"x">>, <<"u">>}, MaxEntries),
               bHasLogFile : BOOLEAN]

\* the file a configuration names as sLogFile, and None as <<>>
LogFile == <<"log.json">>
NoFile == <<>>
CfgLogFile(cfg) == IF cfg.bHasLogFile THEN LogFile ELSE NoFile

\* Lines 573-592 on the class attribute: the declaration of lAttributes is not
\* None (573), and the loop runs over it; its items name neither a custom
\* property nor an attribute.  The read, the membership test or the lookup
\* raises; sErr is which error.
LogErrors == {"AttributeError", "TypeError", "KeyError"}

\* lines 597-601: json.loads(xAttribute), and xAttribute itself when that
\* raises.  Only a string is parsed; the string value v >= 0 is the text of the
\* number v, a string value v < 0 is a text that is no JSON.
JsonLoads(xAttribute) ==
    IF xAttribute.t = "str" /\ xAttribute.v >= 0 THEN Val("int", xAttribute.v) ELSE xAttribute

\* dicJson[sAttr] = xValue
DictSet(dicJson, sAttr, xValue) ==
    [k \in DOMAIN dicJson \cup {sAttr} |-> IF k = sAttr THEN xValue ELSE dicJson[k]]

\* lines 581-602: the loop over the attribute names from item i on; the custom
\* property is looked up first (586), the attribute second (588), and a name
\* that is neither raises KeyError (591)
RECURSIVE LogLoop(_, _, _, _)
LogLoop(o, lAttributes, i, dicJson) ==
    IF i > Len(lAttributes) THEN [dic |-> dicJson, err |-> "none", at |-> 0, msg |-> <<>>]
    ELSE LET sAttr == lAttributes[i] IN
         IF sAttr \in DOMAIN props[o]
         THEN LogLoop(o, lAttributes, i + 1, DictSet(dicJson, sAttr, JsonLoads(props[o][sAttr])))
         ELSE IF HasAttr(<<>>, sAttr)
         THEN LogLoop(o, lAttributes, i + 1,
                      DictSet(dicJson, sAttr, JsonLoads(attrs[o][GetAttr(<<>>, sAttr)])))
         ELSE [dic |-> dicJson, err |-> "KeyError", at |-> i, msg |-> <<sAttr, name[o]>>]

\* lines 604-616: the header goes to the console in both branches, dicJson to
\* the file (opened for writing) or to the console
LogOutput(o, sLogFile, dicJson) ==
    IF sLogFile # NoFile
    THEN <<[op |-> "print", args |-> <<name[o], sLogFile>>],
           [op |-> "open", file |-> sLogFile],
           [op |-> "json.dump", file |-> sLogFile, dicJson |-> dicJson]>>
    ELSE <<[op |-> "print", args |-> <<name[o]>>],
           [op |-> "print", dicJson |-> dicJson]>>

LogObject(o, cfg, sErr) ==
    LET lAttributes == ClassField(cfg, "lAttributes")
        sLogFile == ClassField(cfg, "sLogFile")
    IN
    /\ ModuleLoaded
    /\ pre' = Snapshot
    /\ IF lAttributes = FieldDecl
       THEN /\ lastCall' = CallAt("LogObject", o, cfg, <<"read">>, sErr, 0,
                                  <<lAttributes, name[o]>>)
            /\ hostCalls' = <<>>
       ELSE LET r == LogLoop(o, lAttributes, 1, <<>>) IN
            /\ lastCall' = CallAt("LogObject", o, cfg,
                                   IF r.err = "none" THEN <<"read", "log">> ELSE <<"read">>,
                                   r.err, r.at, r.msg)
            /\ hostCalls' = IF r.err = "none" THEN LogOutput(o, sLogFile, r.dic) ELSE <<>>
    /\ UNCHANGED <<history, g_bInBlenderContext, parent, hide_render, hide_viewport, name, props, attrs,
                   objType, dirs, boxHolds>>

\* the custom properties an object may carry: p and q, and with them or not a
\* property named x like the attribute x; the values are numbers and strings
LogProps ==
    {pr \in [PropKeys \cup {<<"x">>} -> {Val("int", 0), Val("str", 1), Val("str", -1)}] :
        pr[<<"q">>] = Val("int", 0)}
    \cup {[k \in PropKeys |-> Val("int", 0)]}

InitLog ==
    /\ \E pr \in LogProps : props = [o \in Objs |-> pr]
    /\ g_bInBlenderContext = TRUE /\ parent = Flat /\ hide_render = Shown
    /\ hide_viewport = Shown /\ name = InitNames /\ objType = Meshes
    /\ dirs = InitDirs /\ boxHolds = {} /\ attrs = InitAttrs
    /\ hostCalls = <<>> /\ lastCall = NoCall /\ history = NoHistory(Shown)
    /\ pre = [parent |-> parent, hide_render |-> hide_render,
              hide_viewport |-> hide_viewport, name |-> name,
              props |-> props, attrs |-> attrs, dirs |-> dirs]

NextLog == Once /\ \E o \in Objs, cfg \in LogConfigs, e \in LogErrors : LogObject(o, cfg, e)

SpecLog == InitLog /\ [][NextLog]_vars

\* the lookup the configuration asks for: the custom property when the object
\* has one of that name, the attribute otherwise
LogFound(o, sAttr) == sAttr \in DOMAIN pre.props[o] \/ HasAttr(<<>>, sAttr)
LogExpected(o, sAttr) ==
    JsonLoads(IF sAttr \in DOMAIN pre.props[o] THEN pre.props[o][sAttr]
              ELSE pre.attrs[o][GetAttr(<<>>, sAttr)])

\* the host calls that carry the logged values
LogWrites(op) == {i \in 1..Len(hostCalls) : hostCalls[i].op = op /\ "dicJson" \in DOMAIN hostCalls[i]}

\* C12: LogObject reads every name of the configuration's lAttributes, the
\* custom property first and the attribute second; a name found by neither
\* raises with no file opened and nothing printed; otherwise the values read go
\* to the file the configuration names as sLogFile when it names one and to the
\* console when it names none, never to both
LogObjectReadsThenWrites ==
    LastIs("LogObject") =>
        LET o == lastCall.obj
            lAttributes == lastCall.cfg.lAttributes
            sLogFile == CfgLogFile(lastCall.cfg)
            Logged(i) ==
                /\ DOMAIN hostCalls[i].dicJson = {lAttributes[j] : j \in 1..Len(lAttributes)}
                /\ \A j \in 1..Len(lAttributes) :
                      hostCalls[i].dicJson[lAttributes[j]] = LogExpected(o, lAttributes[j])
        IN
        IF \E j \in 1..Len(lAttributes) : ~LogFound(o, lAttributes[j])
        THEN lastCall.err # "none" /\ hostCalls = <<>>
        ELSE /\ lastCall.err = "none"
             /\ IF sLogFile # NoFile
                THEN /\ LogWrites("print") = {}
                     /\ \E i \in LogWrites("json.dump") :
                           hostCalls[i].file = sLogFile /\ Logged(i)
                ELSE /\ HostOps("open") = {} /\ LogWrites("json.dump") = {}
                     /\ \E i \in LogWrites("print") : Logged(i)

\* ---------------------------------------------------- the execution context
\* every modifier, called once in a scene, inside the host or outside of it
InitContext ==
    /\ InitWith(Flat, Shown, InitNames, Meshes, InitDirs, {})
       \/ (g_bInBlenderContext = FALSE /\ parent = Flat /\ hide_render = Shown
           /\ hide_viewport = Shown /\ name = InitNames /\ objType = Meshes
           /\ dirs = InitDirs /\ boxHolds = {} /\ props = InitProps /\ attrs = InitAttrs
           /\ hostCalls = <<>> /\ lastCall = NoCall /\ history = NoHistory(Shown)
           /\ pre = [parent |-> parent, hide_render |-> hide_render,
                     hide_viewport |-> hide_viewport, name |-> name,
                     props |-> props, attrs |-> attrs, dirs |-> dirs])

NextContext ==
    \/ Once /\ \E o \in Objs, cfg \in EnableConfigs : Enable(o, cfg)
    \/ Once /\ \E o \in Objs, cfg \in BoundBoxConfigs : EnableIfBoundBox(o, cfg)
    \/ Once /\ \E o \in Objs, cfg \in ModConfigs(PropCfgKeys, PropCfgVals), b \in BOOLEAN : ModifyProperties(o, cfg, b)
    \/ Once /\ \E o \in Objs, cfg \in ModConfigs(AttrCfgKeys, AttrCfgVals) : ModifyAttributes(o, cfg)
    \/ Once /\ \E o \in Objs, cfg \in ParentConfigs : ParentToObject(o, cfg)
    \/ Once /\ \E o \in Objs, cfg \in RenameConfigs : RenameObject(o, cfg)
    \/ Once /\ \E o \in Objs, cfg \in LogConfigs, e \in LogErrors : LogObject(o, cfg, e)
    \/ Once /\ \E o \in Objs, cfg \in ExportConfigs, b \in BOOLEAN : ExportObjectObj(o, cfg, b)

SpecContext == InitContext /\ [][NextContext]_vars

\* C10: the first step of every modifier call is the assertion that it runs in
\* the host's execution context, before the configuration is parsed and before
\* the scene is read or written
AssertsContextFirst ==
    lastCall.fn # "none" => (lastCall.trace # <<>> /\ Head(lastCall.trace) = "assert")

====
